---- MODULE Spec2Model ----
(***************************************************************************)
(* VariantToMapConverter (src/plugins/json/varianttomapconverter.cpp):     *)
(* conversion of a generic variant tree into a tile-map document.          *)
(*                                                                         *)
(* One toMap call is a walk over the input: the header, then one tileset   *)
(* after the other (each with its loop over the "tiles" overrides), then   *)
(* one layer after the other.  The state is the converter's members        *)
(* (mError, mGidMapper), the document being built, the tileset being       *)
(* built, the loop variables of the walk and the value toMap returned.     *)
(* The converter object is reused: a new toMap call may follow a return.   *)
(***************************************************************************)
EXTENDS Integers, Sequences, FiniteSets, TLC

VARIABLES
    pc,           \* position of the walk: "idle", "tileset", "tiles",
                  \* "tilesetEnd", "layer", "returned", "crashed"
    mError,       \* VariantToMapConverter::mError
    mErrorAge,    \* history: who wrote mError last ("stale": before this
                  \* call; "earlier": an earlier step of this call;
                  \* "fresh": the step just taken)
    mGidMapper,   \* VariantToMapConverter::mGidMapper: set of <<firstGid, k>>,
                  \* k the position of the tileset in the document
    map,          \* the Map under construction (toMap's local `map`)
    cur,          \* the tileset under construction (toTileset's locals)
    tileIndex,    \* toTileset's loop local `tileIndex` (last override key)
    lastTileVar,  \* toTileset's loop local `tileVar` (last override value)
    layerVariant, \* toMap's loop local `layerVariant` (last layer input)
    result        \* what toMap returned: "none" (running), "null", "map"

vars == <<pc, mError, mErrorAge, mGidMapper, map, cur, tileIndex,
          lastTileVar, layerVariant, result>>

----------------------------------------------------------------------------
(* Bounds of the explored inputs *)

MaxTilesets == 2     \* tilesets of one document
MaxLayers == 1       \* layers of one document
MaxOverrides == 2    \* entries of one "tiles" override map
MaxImageTiles == 2   \* tiles cut from a tileset image
MaxTileIndex == 3    \* override keys -1..MaxTileIndex
MaxFirstGid == 3     \* firstgid values of the tilesets of a tile layer's map
MaxGridTiles == 4    \* tiles of a tileset of a tile layer's map
MaxDim == 3          \* tile layer width and height 0..MaxDim
MaxGid == 5          \* global ids 0..MaxGid in layer data and objects
MaxPoints == 2       \* points of a polygon or polyline list
MaxTerrains == 1     \* terrains of a tileset; terrain entries -1..MaxTerrains

----------------------------------------------------------------------------
(* Values *)

NoVariant == [valid |-> FALSE, str |-> ""]     \* an absent key: QVariant()
StringVariant(s) == [valid |-> TRUE, str |-> s]

\* QVariant::toString() of a string or invalid variant
VariantToString(v) == IF v.valid THEN v.str ELSE ""

\* a tile layer data entry is a number or something that is not one
NonNumeric == 0 - 1

\* QVariant::toUInt(&ok) of a data entry
VariantToUInt(v) == [ok |-> v >= 0, value |-> IF v >= 0 THEN v ELSE 0]

\* a variant that holds an integer, and one that holds none
IntVariant(n) == [isInt |-> TRUE, int |-> n]
NoIntVariant == [isInt |-> FALSE, int |-> 0]

\* QVariant::toInt(&ok)
VariantToInt(v) == [ok |-> v.isInt, value |-> IF v.isInt THEN v.int ELSE 0]

\* QVariant::toReal() of a coordinate: 0 when it holds no number
VariantToReal(v) == VariantToInt(v).value

\* a variant that holds a list (isValid), and the variant of an absent key
ListVariant(l) == [valid |-> TRUE, list |-> l]
NoListVariant == [valid |-> FALSE, list |-> <<>>]

EmptyCell == [ts |-> 0, id |-> 0]      \* Cell(): no tile
IsEmptyCell(c) == c.ts = 0

NoTileset == [firstGid |-> 0, tileSize |-> <<0, 0>>, terrainCount |-> 0,
              tiles |-> <<>>, N |-> 0, left |-> 0]
NoLayerVariant == [type |-> "", width |-> 0, height |-> 0, data |-> <<>>,
                   draworder |-> "", objects |-> <<>>, image |-> "absent"]
NoMap == [tilesets |-> <<>>, layers |-> <<>>]
NoTileVariant ==
    [image |-> [present |-> FALSE, size |-> <<0, 0>>],
     objectgroup |-> [present |-> FALSE, draworder |-> "", objects |-> <<>>],
     terrain |-> <<>>]

NoGroup == [null |-> FALSE, present |-> FALSE, drawOrder |-> "", objects |-> <<>>]
NullGroup == [null |-> TRUE, present |-> FALSE, drawOrder |-> "", objects |-> <<>>]

\* the terrain id of a corner no terrain was assigned to
UnsetTerrain == 0 - 1
UnsetCorners == [i \in 1..4 |-> UnsetTerrain]

\* Tile created by Tileset::addTile(QPixmap()) / cut from the tileset image
NewTile(size) == [size |-> size, objectGroup |-> NoGroup, terrain |-> UnsetCorners]


----------------------------------------------------------------------------
(* Collaborators of the converter (libtiled) *)

\* orientationFromString
OrientationFromString(s) ==
    IF s \in {"orthogonal", "isometric", "staggered", "hexagonal"} THEN s
    ELSE "Unknown"

\* drawOrderFromString
DrawOrderFromString(s) ==
    IF s = "topdown" THEN "TopDownOrder"
    ELSE IF s = "index" THEN "IndexOrder"
    ELSE "UnknownOrder"

\* GidMapper::insert: register a tileset under its first global id
MapperInsert(mapper, firstGid, k) ==
    {e \in mapper : e[1] # firstGid} \cup {<<firstGid, k>>}

\* GidMapper::gidToCell: the tileset with the greatest firstGid <= gid,
\* local index gid - firstGid; empty when gid is 0, when no tileset matches
\* or when the local index is no tile of the tileset
GidToCell(gid) ==
    LET below == {e \in mGidMapper : e[1] <= gid}
    IN IF gid = 0 \/ below = {}
       THEN [cell |-> EmptyCell, ok |-> FALSE]
       ELSE LET e == CHOOSE f \in below : \A g \in below : g[1] <= f[1]
                local == gid - e[1]
            IN IF local < Len(map.tilesets[e[2]].tiles)
               THEN [cell |-> [ts |-> e[2], id |-> local], ok |-> TRUE]
               ELSE [cell |-> EmptyCell, ok |-> TRUE]

\* Cell::tile of a non-empty cell
TileOfCell(c) == map.tilesets[c.ts].tiles[c.id + 1]

\* new TileLayer(name, x, y, width, height): width*height empty cells
NewTileLayer(width, height) ==
    [type |-> "tilelayer", width |-> width, height |-> height,
     grid |-> [i \in 1..(width * height) |-> EmptyCell], group |-> NoGroup]

\* TileLayer::cellAt(x, y): row-major grid
CellAt(layer, x, y) == layer.grid[x + y * layer.width + 1]

\* TileLayer::setCell(x, y, cell)
SetCell(layer, x, y, cell) ==
    [layer EXCEPT !.grid = [i \in DOMAIN layer.grid |->
                              IF i = x + y * layer.width + 1 THEN cell
                              ELSE layer.grid[i]]]

NullLayer == [type |-> "null", width |-> 0, height |-> 0, grid |-> <<>>,
              group |-> NullGroup]

----------------------------------------------------------------------------
(* toRTBMapObject, lines 493-616 *)

NoTarget == "n/a"    \* extension records without a target field

\* a sentinel test on the numeric value of the string
StoredTarget_NumericZero(target) == IF target \in {"0", "00"} THEN "" ELSE target

\* lines 546-550 and 577-581: the "0" sentinel
StoredTarget(target) == IF target # "0" THEN target ELSE ""

ToRTBMapObject(objectVariantMap) ==
    LET t == objectVariantMap.objectType
    IN [objectType |-> t,
        target |->
          IF t = "Teleporter"
          THEN StoredTarget(VariantToString(objectVariantMap.teleportertarget))
          ELSE IF t = "CameraTrigger"
          THEN StoredTarget(VariantToString(objectVariantMap.cameratarget))
          ELSE NoTarget]

----------------------------------------------------------------------------
(* toObjectGroup, lines 325-411 *)

\* a backfill of both dimensions as soon as the width is 0
ObjectSize_WidthDecides(width, height, gid, cell) ==
    IF gid # 0 /\ ~IsEmptyCell(cell) /\ width = 0
    THEN TileOfCell(cell).size
    ELSE <<width, height>>

\* lines 371-382: the size of an object, backfilled from its tile stamp
ObjectSize(width, height, gid, cell) ==
    IF gid # 0 /\ ~IsEmptyCell(cell)
    THEN LET tileSize == TileOfCell(cell).size
         IN <<IF width = 0 THEN tileSize[1] ELSE width,
              IF height = 0 THEN tileSize[2] ELSE height>>
    ELSE <<width, height>>

\* toPolygon, lines 445-455: the points of a point list
ToPolygon(variant) ==
    [i \in 1..Len(variant.list) |->
        <<VariantToReal(variant.list[i].x), VariantToReal(variant.list[i].y)>>]

\* an ellipse marker that only counts when no point list is present
ObjectShape_ListsFirst(polygonVariant, polylineVariant, containsEllipse) ==
    IF polygonVariant.valid /\ ~polylineVariant.valid THEN "Polygon"
    ELSE IF polylineVariant.valid THEN "Polyline"
    ELSE IF containsEllipse THEN "Ellipse"
    ELSE "Rectangle"

\* lines 393-402: the three assignments of the shape, one after the other,
\* on an object created as a rectangle
ObjectShape(polygonVariant, polylineVariant, containsEllipse) ==
    LET created == "Rectangle"
        afterPolygon == IF polygonVariant.valid THEN "Polygon" ELSE created
        afterPolyline == IF polylineVariant.valid THEN "Polyline" ELSE afterPolygon
    IN IF containsEllipse THEN "Ellipse" ELSE afterPolyline

\* lines 393-400: the two assignments of the points, one after the other
ObjectPolygon(polygonVariant, polylineVariant) ==
    LET afterPolygon == IF polygonVariant.valid THEN ToPolygon(polygonVariant)
                        ELSE <<>>
    IN IF polylineVariant.valid THEN ToPolygon(polylineVariant) ELSE afterPolygon

\* lines 352-406: one object of the group
ToMapObject(objectVariantMap) ==
    LET gid == objectVariantMap.gid
        cell == IF gid # 0 THEN GidToCell(gid).cell ELSE EmptyCell
    IN [size |-> ObjectSize(objectVariantMap.width, objectVariantMap.height,
                            gid, cell),
        cell |-> cell,
        shape |-> ObjectShape(objectVariantMap.polygon, objectVariantMap.polyline,
                              objectVariantMap.ellipse # "absent"),
        polygon |-> ObjectPolygon(objectVariantMap.polygon,
                                  objectVariantMap.polyline),
        rtb |-> ToRTBMapObject(objectVariantMap)]

\* lines 342-349: is the draw-order string fatal?
InvalidDrawOrder(drawOrderString) ==
    drawOrderString # "" /\ DrawOrderFromString(drawOrderString) = "UnknownOrder"

\* the whole function: the group (or null) and what it wrote to mError
ToObjectGroup(variantMap) ==
    IF InvalidDrawOrder(variantMap.draworder)
    THEN [group |-> NullGroup, error |-> "Invalid draw order"]
    ELSE [group |-> [null |-> FALSE, present |-> TRUE,
                     drawOrder |-> IF variantMap.draworder # ""
                                   THEN DrawOrderFromString(variantMap.draworder)
                                   ELSE "TopDownOrder",
                     objects |-> [i \in 1..Len(variantMap.objects) |->
                                    ToMapObject(variantMap.objects[i])]],
          error |-> ""]

----------------------------------------------------------------------------
(* toTileLayer, lines 275-323 *)

\* a length check that only rejects lists that are too short
CorruptLayerData_TooShortOnly(size, width, height) == size < width * height

\* line 282
CorruptLayerData(size, width, height) == size # width * height

\* a wrap that comes one cell late
NextXY_LateWrap(x, y, width) == IF x + 1 > width THEN <<0, y + 1>> ELSE <<x + 1, y>>

\* lines 315-319: the next cell position
NextXY(x, y, width) == IF x + 1 >= width THEN <<0, y + 1>> ELSE <<x + 1, y>>

\* an entry loop that takes the `ok` of gidToCell for a parse failure
TileLayerEntry_UnresolvedFatal(gidVariant) ==
    LET gid == VariantToUInt(gidVariant)
    IN [fatal |-> ~gid.ok \/ ~GidToCell(gid.value).ok,
        cell |-> IF gid.ok THEN GidToCell(gid.value).cell ELSE EmptyCell]

\* lines 304-311: one data entry: is it fatal, and the cell it gives
\* (the `ok` of gidToCell is not looked at)
TileLayerEntry(gidVariant) ==
    LET gid == VariantToUInt(gidVariant)
    IN [fatal |-> ~gid.ok,
        cell |-> IF gid.ok THEN GidToCell(gid.value).cell ELSE EmptyCell]

RECURSIVE TileLayerLoop(_, _, _, _, _)
\* lines 303-320: the loop from entry i on, at position (x, y)
TileLayerLoop(data, i, x, y, tileLayer) ==
    IF i > Len(data) THEN [layer |-> tileLayer, error |-> ""]
    ELSE LET entry == TileLayerEntry(data[i])
             xy == NextXY(x, y, tileLayer.width)
         IN IF entry.fatal
            THEN [layer |-> NullLayer, error |-> "Unable to parse tile"]
            ELSE TileLayerLoop(data, i + 1, xy[1], xy[2],
                               SetCell(tileLayer, x, y, entry.cell))

ToTileLayer(variantMap) ==
    IF CorruptLayerData(Len(variantMap.data), variantMap.width, variantMap.height)
    THEN [layer |-> NullLayer, error |-> "Corrupt layer data"]
    ELSE TileLayerLoop(variantMap.data, 1, 0, 0,
                       NewTileLayer(variantMap.width, variantMap.height))

----------------------------------------------------------------------------
(* toImageLayer, lines 413-443, and toLayer, lines 257-273 *)

ToImageLayer(variantMap) ==
    IF variantMap.image = "fail"
    THEN [layer |-> NullLayer, error |-> "Error loading image"]
    ELSE [layer |-> [type |-> "imagelayer", width |-> variantMap.width,
                     height |-> variantMap.height, grid |-> <<>>,
                     group |-> NoGroup],
          error |-> ""]

\* error "" : the call did not write mError
ToLayer(variantMap) ==
    IF variantMap.type = "tilelayer" THEN ToTileLayer(variantMap)
    ELSE IF variantMap.type = "objectgroup"
    THEN LET r == ToObjectGroup(variantMap)
         IN IF r.group.null THEN [layer |-> NullLayer, error |-> r.error]
            ELSE [layer |-> [type |-> "objectgroup", width |-> variantMap.width,
                             height |-> variantMap.height, grid |-> <<>>,
                             group |-> r.group],
                  error |-> ""]
    ELSE IF variantMap.type = "imagelayer" THEN ToImageLayer(variantMap)
    ELSE [layer |-> NullLayer, error |-> ""]

----------------------------------------------------------------------------
(* The walk of toMap, lines 46-114 *)

\* mError was not written by the step being taken
Aged(age) == IF age = "fresh" THEN "earlier" ELSE age

\* toMap returns 0 (lines 60, 100, 108)
ReturnNull ==
    /\ result' = "null"
    /\ pc' = "returned"

\* where the walk goes after the header or after a tileset was added
\* (lines 97 and 105): the next tileset, the first layer, or line 113
AfterTileset(moreTilesets, hasLayers) ==
    /\ pc' = IF moreTilesets THEN "tileset"
             ELSE IF hasLayers THEN "layer" ELSE "returned"
    /\ result' = IF moreTilesets \/ hasLayers THEN "none" ELSE "map"

\* where the walk goes after a layer was added (lines 105 and 113)
AfterLayer(moreLayers) ==
    /\ pc' = IF moreLayers THEN "layer" ELSE "returned"
    /\ result' = IF moreLayers THEN "none" ELSE "map"

More(n, max) == IF n < max THEN BOOLEAN ELSE {FALSE}

\* a call that keeps the registrations of the call before
ClearedMapper_Kept(mapper) == mapper

\* line 49: mGidMapper.clear()
ClearedMapper(mapper) == {}

\* lines 46-96: a call of toMap on the converter, up to the tileset loop
ToMapBegin(D) ==
    /\ pc \in (IF D.reuse THEN {"idle", "returned"} ELSE {"idle"})
    /\ \E orientationString \in D.orientations,
          hasTilesets \in D.hasTilesets, hasLayers \in D.hasLayers :
          /\ mGidMapper' = ClearedMapper(mGidMapper)
          /\ map' = NoMap
          /\ cur' = NoTileset
          /\ tileIndex' = 0
          /\ lastTileVar' = NoTileVariant
          /\ layerVariant' = NoLayerVariant
          /\ IF OrientationFromString(orientationString) = "Unknown"
             THEN /\ mError' = "Unsupported map orientation"
                  /\ mErrorAge' = "fresh"
                  /\ ReturnNull
             ELSE /\ mError' = mError
                  /\ mErrorAge' = "stale"
                  /\ AfterTileset(hasTilesets, hasLayers)

----------------------------------------------------------------------------
(* toTileset, lines 130-255 *)

\* line 144
InvalidTilesetParameters(tileWidth, tileHeight, firstGid) ==
    tileWidth <= 0 \/ tileHeight <= 0 \/ firstGid = 0

\* lines 130-182: parameters, image, terrains; up to the override loop
ToTilesetBegin(D) ==
    /\ pc = "tileset"
    /\ \E firstGid \in D.firstGids, tileWidth \in D.tileWidths,
          tileHeight \in D.tileHeights, image \in D.images,
          terrainCount \in D.terrainCounts, N \in D.overrideCounts :
          /\ UNCHANGED <<mGidMapper, map, layerVariant>>
          /\ tileIndex' = 0
          /\ lastTileVar' = NoTileVariant
          /\ IF InvalidTilesetParameters(tileWidth, tileHeight, firstGid)
             THEN /\ mError' = "Invalid tileset parameters"
                  /\ mErrorAge' = "fresh"
                  /\ cur' = NoTileset
                  /\ ReturnNull
             ELSE IF image.present /\ ~image.ok
             THEN /\ mError' = "Error loading tileset image"
                  /\ mErrorAge' = "fresh"
                  /\ cur' = NoTileset
                  /\ ReturnNull
             ELSE /\ mError' = mError
                  /\ mErrorAge' = Aged(mErrorAge)
                  /\ cur' = [firstGid |-> firstGid,
                             tileSize |-> <<tileWidth, tileHeight>>,
                             terrainCount |-> terrainCount,
                             tiles |-> [i \in 1..(IF image.present THEN image.tiles ELSE 0)
                                          |-> NewTile(<<tileWidth, tileHeight>>)],
                             N |-> N, left |-> N]
                  /\ pc' = IF N > 0 THEN "tiles" ELSE "tilesetEnd"
                  /\ result' = "none"

\* line 187: the override key is negative
TileIndexNegative(index) == index < 0

\* a cap that lets the key equal to the number of entries through
TileIndexTooHigh_OffByOne(index, tileCount, entries) ==
    index >= tileCount /\ index > entries

\* lines 191 and 193: the key needs growth that the cap forbids
TileIndexTooHigh(index, tileCount, entries) ==
    index >= tileCount /\ index >= entries

\* lines 191 and 201-202: the tiles after growth to fit the key
GrownTiles(tiles, index) ==
    IF index >= Len(tiles)
    THEN tiles \o [i \in 1..(index + 1 - Len(tiles)) |-> NewTile(<<0, 0>>)]
    ELSE tiles

\* Tileset::tileAt(tileIndex) at line 205: the position of the tile in the
\* sequence; 0 is a null pointer.  A negative index reads outside the list
\* (undefined): the read may give null, may give a tile of the list, or the
\* process may die (CrashOutcome).
CrashOutcome == 0 - 1
TileAt(tiles, index) ==
    IF index >= Len(tiles) THEN {0}
    ELSE IF index >= 0 THEN {index + 1}
    ELSE {0, CrashOutcome} \cup (1..Len(tiles))

\* a range test that lets the terrain count itself through
TerrainCorner_InclusiveBound(corner, entry, terrainCount) ==
    LET terrainId == VariantToInt(entry)
    IN IF terrainId.ok /\ terrainId.value >= 0 /\ terrainId.value <= terrainCount
       THEN terrainId.value
       ELSE corner

\* lines 211-213: the terrain id of a corner after its entry of the list
TerrainCorner(corner, entry, terrainCount) ==
    LET terrainId == VariantToInt(entry)
    IN IF terrainId.ok /\ terrainId.value >= 0 /\ terrainId.value < terrainCount
       THEN terrainId.value
       ELSE corner

\* lines 208-215: the four corners of a tile after the terrain list
TileTerrain(corners, terrains, terrainCount) ==
    IF Len(terrains) = 4
    THEN [i \in 1..4 |-> TerrainCorner(corners[i], terrains[i], terrainCount)]
    ELSE corners

\* lines 206-239: the overrides applied to a tile (probability and frames
\* are not part of the state)
OverriddenTile(tile, tileVar, group, terrainCount) ==
    [size |-> IF tileVar.image.present THEN tileVar.image.size ELSE tile.size,
     objectGroup |-> IF tileVar.objectgroup.present THEN group
                     ELSE tile.objectGroup,
     terrain |-> TileTerrain(tile.terrain, tileVar.terrain, terrainCount)]

\* lines 184-240: one iteration of the override loop
ToTilesetTile(D) ==
    /\ pc = "tiles"
    /\ cur.left > 0
    /\ \E index \in D.tileIndexes, tileVar \in D.tileVars :
       \E at \in TileAt(GrownTiles(cur.tiles, index), index) :
          LET group == ToObjectGroup(tileVar.objectgroup)
              groupError == at > 0 /\ tileVar.objectgroup.present
                            /\ group.error # ""
              tiles == GrownTiles(cur.tiles, index)
          IN /\ UNCHANGED <<mGidMapper, map, layerVariant>>
             /\ tileIndex' = index
             /\ lastTileVar' = tileVar
             /\ IF TileIndexTooHigh(index, Len(cur.tiles), cur.N)
                THEN /\ mError' = "Tileset tile index too high"
                     /\ mErrorAge' = "fresh"
                     /\ cur' = cur
                     /\ ReturnNull
                ELSE /\ mError' = IF groupError THEN group.error
                                  ELSE IF TileIndexNegative(index)
                                  THEN "Tileset tile index negative"
                                  ELSE mError
                     /\ mErrorAge' = IF groupError \/ TileIndexNegative(index)
                                     THEN "fresh" ELSE Aged(mErrorAge)
                     /\ cur' = [cur EXCEPT
                                  !.tiles = IF at > 0
                                            THEN [tiles EXCEPT ![at] =
                                                    OverriddenTile(tiles[at], tileVar,
                                                                   group.group,
                                                                   cur.terrainCount)]
                                            ELSE tiles,
                                  !.left = cur.left - 1]
                     /\ result' = "none"
                     /\ pc' = IF at = CrashOutcome THEN "crashed"
                              ELSE IF cur.left > 1 THEN "tiles"
                              ELSE "tilesetEnd"

\* a registration under the zero-based id
RegisteredGid_ZeroBased(firstGid) == firstGid - 1

\* line 253: the key the tileset is registered under
RegisteredGid(firstGid) == firstGid

\* lines 242-254 and 99-103: tile properties (not part of the state), the
\* registration with the mapper, the return and map->addTileset
ToTilesetEnd(D) ==
    /\ pc = "tilesetEnd"
    /\ \E moreTilesets \in More(Len(map.tilesets) + 1, D.maxTilesets),
          hasLayers \in D.hasLayers :
          /\ mGidMapper' = MapperInsert(mGidMapper, RegisteredGid(cur.firstGid),
                                        Len(map.tilesets) + 1)
          /\ map' = [map EXCEPT !.tilesets =
                       Append(@, [firstGid |-> cur.firstGid, tiles |-> cur.tiles])]
          /\ cur' = NoTileset
          /\ mError' = mError
          /\ mErrorAge' = Aged(mErrorAge)
          /\ UNCHANGED <<tileIndex, lastTileVar, layerVariant>>
          /\ AfterTileset(moreTilesets, hasLayers)

----------------------------------------------------------------------------
(* lines 105-113: one iteration of the layer loop *)

ToMapLayer(D) ==
    /\ pc = "layer"
    /\ \E variantMap \in D.layers,
          moreLayers \in More(Len(map.layers) + 1, D.maxLayers) :
          LET r == ToLayer(variantMap)
          IN /\ layerVariant' = variantMap
             /\ UNCHANGED <<mGidMapper, cur, tileIndex, lastTileVar>>
             /\ mError' = IF r.error # "" THEN r.error ELSE mError
             /\ mErrorAge' = IF r.error # "" THEN "fresh" ELSE Aged(mErrorAge)
             /\ IF r.layer.type = "null"
                THEN /\ map' = map
                     /\ ReturnNull
                ELSE /\ map' = [map EXCEPT !.layers = Append(@, r.layer)]
                     /\ AfterLayer(moreLayers)

----------------------------------------------------------------------------
(* Inputs *)

Image(present, ok, tiles) == [present |-> present, ok |-> ok, tiles |-> tiles]
NoTileImage == [present |-> FALSE, size |-> <<0, 0>>]
GroupVariant(draworder, objects) ==
    [present |-> TRUE, draworder |-> draworder, objects |-> objects]
NoGroupVariant == [present |-> FALSE, draworder |-> "", objects |-> <<>>]
TileVariant(image, objectgroup) ==
    [image |-> image, objectgroup |-> objectgroup, terrain |-> <<>>]
TerrainTileVariant(terrain) ==
    [image |-> NoTileImage, objectgroup |-> NoGroupVariant, terrain |-> terrain]
ObjectVariant(gid, width, height, objectType, teleportertarget, cameratarget) ==
    [gid |-> gid, width |-> width, height |-> height, objectType |-> objectType,
     teleportertarget |-> teleportertarget, cameratarget |-> cameratarget,
     polygon |-> NoListVariant, polyline |-> NoListVariant, ellipse |-> "absent"]
ShapedObjectVariant(polygon, polyline, ellipse) ==
    [ObjectVariant(0, 1, 1, "Button", NoVariant, NoVariant) EXCEPT
        !.polygon = polygon, !.polyline = polyline, !.ellipse = ellipse]
PointVariant(x, y) == [x |-> x, y |-> y]
LayerVariant(type, width, height, data, draworder, objects, image) ==
    [type |-> type, width |-> width, height |-> height, data |-> data,
     draworder |-> draworder, objects |-> objects, image |-> image]

DrawOrders == {"", "topdown", "index", "foobar"}

\* The walk on a reused converter: every way a step can fail.
WalkInputs ==
    [reuse |-> TRUE,
     orientations |-> {"orthogonal", "bogus"},
     hasTilesets |-> BOOLEAN,
     hasLayers |-> BOOLEAN,
     maxTilesets |-> MaxTilesets,
     maxLayers |-> MaxLayers,
     firstGids |-> 0..1,
     tileWidths |-> 0..1,
     tileHeights |-> {1},
     terrainCounts |-> {0},
     images |-> {Image(FALSE, FALSE, 0), Image(TRUE, FALSE, 0), Image(TRUE, TRUE, 1)},
     overrideCounts |-> 0..1,
     tileIndexes |-> (0 - 1)..1,
     tileVars |-> {TileVariant(NoTileImage, g) :
                     g \in {NoGroupVariant} \cup
                           {GroupVariant(d, <<>>) : d \in {"index", "foobar"}}},
     layers |-> {LayerVariant("tilelayer", 1, 1, d, "", <<>>, "absent") :
                     d \in {<<>>, <<1>>, <<NonNumeric>>}}
                \cup {LayerVariant("objectgroup", 0, 0, <<>>, d, <<>>, "absent") :
                     d \in DrawOrders}
                \cup {LayerVariant("imagelayer", 0, 0, <<>>, "", <<>>, i) :
                     i \in {"absent", "ok", "fail"}}
                \cup {LayerVariant("other", 0, 0, <<>>, "", <<>>, "absent")}]

\* One tileset on a fresh converter: every shape of the override map.
TilesetInputs ==
    [reuse |-> FALSE,
     orientations |-> {"orthogonal"},
     hasTilesets |-> {TRUE},
     hasLayers |-> {FALSE},
     maxTilesets |-> 1,
     maxLayers |-> 0,
     firstGids |-> {1},
     tileWidths |-> {1},
     tileHeights |-> {1},
     terrainCounts |-> {0},
     images |-> {Image(FALSE, FALSE, 0)}
                \cup {Image(TRUE, TRUE, n) : n \in 0..MaxImageTiles},
     overrideCounts |-> 0..MaxOverrides,
     tileIndexes |-> (0 - 1)..MaxTileIndex,
     tileVars |-> {TileVariant(i, g) :
                     i \in {NoTileImage, [present |-> TRUE, size |-> <<2, 2>>]},
                     g \in {NoGroupVariant} \cup
                           {GroupVariant(d, <<>>) : d \in {"index", "foobar"}}},
     layers |-> {}]

\* the data run a, a+1, ... of global ids, wrapping after MaxGid
DataRun(len, a) == [i \in 1..len |-> (a + i - 1) % (MaxGid + 1)]

\* the data lists tried for a width x height layer: runs of the right
\* length and of the lengths next to it, runs ending in the highest gid,
\* and runs with one entry that is no number
GridData(width, height) ==
    LET n == width * height
        runs == {DataRun(len, a) : len \in {n - 1, n, n + 1} \cap Nat, a \in 0..MaxGid}
    IN runs
       \cup (IF n > 0 THEN {[DataRun(n, 0) EXCEPT ![n] = MaxGid]} ELSE {})
       \cup {[DataRun(n, 1) EXCEPT ![i] = NonNumeric] : i \in 1..n}

\* Tile layers on a fresh converter over up to two tilesets cut from images.
GridInputs ==
    [reuse |-> FALSE,
     orientations |-> {"orthogonal"},
     hasTilesets |-> BOOLEAN,
     hasLayers |-> {TRUE},
     maxTilesets |-> 2,
     maxLayers |-> 1,
     firstGids |-> 1..MaxFirstGid,
     tileWidths |-> {1},
     tileHeights |-> {1},
     terrainCounts |-> {0},
     images |-> {Image(TRUE, TRUE, n) : n \in 0..MaxGridTiles},
     overrideCounts |-> {0},
     tileIndexes |-> {},
     tileVars |-> {},
     layers |-> UNION {{LayerVariant("tilelayer", w, h, d, "", <<>>, "absent") :
                          d \in GridData(w, h)} : w \in 0..MaxDim, h \in 0..MaxDim}]

Targets == {NoVariant, StringVariant(""), StringVariant("0"),
            StringVariant("00"), StringVariant("a")}

\* One object of an object layer on a fresh converter over one tileset
\* with a tile cut from the image and maybe a placeholder tile.
ObjectInputs ==
    [reuse |-> FALSE,
     orientations |-> {"orthogonal"},
     hasTilesets |-> BOOLEAN,
     hasLayers |-> {TRUE},
     maxTilesets |-> 1,
     maxLayers |-> 1,
     firstGids |-> {1},
     tileWidths |-> {1},
     tileHeights |-> {2},
     terrainCounts |-> {0},
     images |-> {Image(TRUE, TRUE, 1)},
     overrideCounts |-> {0, 2},
     tileIndexes |-> {1},
     tileVars |-> {TileVariant(NoTileImage, NoGroupVariant)},
     layers |-> {LayerVariant("objectgroup", 0, 0, <<>>, "",
                              <<ObjectVariant(gid, w, h, t, tt, ct)>>, "absent") :
                   gid \in 0..MaxGid, w \in {0, 3}, h \in {0, 3},
                   t \in {"Teleporter", "CameraTrigger", "Button"},
                   tt \in Targets, ct \in Targets}]

\* the point lists of up to MaxPoints points, one of which has no x
PointLists ==
    LET points == {PointVariant(IntVariant(1), IntVariant(2)),
                   PointVariant(NoIntVariant, IntVariant(3))}
    IN UNION {[1..n -> points] : n \in 0..MaxPoints}

\* the values of the "polygon" and "polyline" keys: absent or a point list
ShapeLists == {NoListVariant} \cup {ListVariant(l) : l \in PointLists}

\* One object of an object layer on a fresh converter, without tilesets:
\* every combination of the polygon, polyline and ellipse keys.
ShapeInputs ==
    [reuse |-> FALSE,
     orientations |-> {"orthogonal"},
     hasTilesets |-> {FALSE},
     hasLayers |-> {TRUE},
     maxTilesets |-> 0,
     maxLayers |-> 1,
     firstGids |-> {},
     tileWidths |-> {},
     tileHeights |-> {},
     terrainCounts |-> {},
     images |-> {},
     overrideCounts |-> {},
     tileIndexes |-> {},
     tileVars |-> {},
     layers |-> {LayerVariant("objectgroup", 0, 0, <<>>, "",
                              <<ShapedObjectVariant(pg, pl, e)>>, "absent") :
                   pg \in ShapeLists, pl \in ShapeLists,
                   e \in {"absent", "true", "false"}}]

\* Calls on a reused converter over up to two tilesets, some of which fail
\* (firstgid 0, an image that does not load, an override key too high);
\* a tile override carries a nested object group with one tile object.
MapperInputs ==
    [reuse |-> TRUE,
     orientations |-> {"orthogonal"},
     hasTilesets |-> BOOLEAN,
     hasLayers |-> BOOLEAN,
     maxTilesets |-> 2,
     maxLayers |-> 1,
     firstGids |-> 0..2,
     tileWidths |-> {1},
     tileHeights |-> {1},
     terrainCounts |-> {0},
     images |-> {Image(TRUE, FALSE, 0), Image(TRUE, TRUE, 1), Image(TRUE, TRUE, 2)},
     overrideCounts |-> 0..1,
     tileIndexes |-> {0, 2},
     tileVars |-> {TileVariant(NoTileImage,
                               GroupVariant("", <<ObjectVariant(gid, 1, 1, "Button",
                                                                NoVariant, NoVariant)>>)) :
                     gid \in 1..3},
     layers |-> {LayerVariant("tilelayer", 1, 1, <<gid>>, "", <<>>, "absent") :
                   gid \in 0..3}
                \cup {LayerVariant("objectgroup", 0, 0, <<>>, "foobar", <<>>, "absent")}]

\* the entries of a terrain list: no number, a negative number, and the
\* numbers up to the highest terrain count
TerrainEntries == {NoIntVariant} \cup {IntVariant(n) : n \in (0 - 1)..MaxTerrains}

\* terrain lists of 4 entries, and of 0, 3 and 5 entries
TerrainLists ==
    [1..4 -> TerrainEntries]
    \cup {[i \in 1..len |-> IntVariant(0)] : len \in {0, 3, 5}}

\* One tileset on a fresh converter whose override map has one or two
\* entries for tile 0 (keys such as "0" and "00"), each with a terrain list.
TerrainInputs ==
    [reuse |-> FALSE,
     orientations |-> {"orthogonal"},
     hasTilesets |-> {TRUE},
     hasLayers |-> {FALSE},
     maxTilesets |-> 1,
     maxLayers |-> 0,
     firstGids |-> {1},
     tileWidths |-> {1},
     tileHeights |-> {1},
     terrainCounts |-> 0..MaxTerrains,
     images |-> {Image(FALSE, FALSE, 0), Image(TRUE, TRUE, 1)},
     overrideCounts |-> 1..2,
     tileIndexes |-> {0},
     tileVars |-> {TerrainTileVariant(t) : t \in TerrainLists},
     layers |-> {}]

----------------------------------------------------------------------------
(* Specifications *)

Init ==
    /\ pc = "idle"
    /\ mError = ""
    /\ mErrorAge = "stale"
    /\ mGidMapper = {}
    /\ map = NoMap
    /\ cur = NoTileset
    /\ tileIndex = 0
    /\ lastTileVar = NoTileVariant
    /\ layerVariant = NoLayerVariant
    /\ result = "none"

Next ==
    \/ ToMapBegin(WalkInputs)
    \/ ToTilesetBegin(WalkInputs)
    \/ ToTilesetTile(WalkInputs)
    \/ ToTilesetEnd(WalkInputs)
    \/ ToMapLayer(WalkInputs)

Spec == Init /\ [][Next]_vars

NextTileset ==
    \/ ToMapBegin(TilesetInputs)
    \/ ToTilesetBegin(TilesetInputs)
    \/ ToTilesetTile(TilesetInputs)
    \/ ToTilesetEnd(TilesetInputs)

SpecTileset == Init /\ [][NextTileset]_vars

NextGrid ==
    \/ ToMapBegin(GridInputs)
    \/ ToTilesetBegin(GridInputs)
    \/ ToTilesetEnd(GridInputs)
    \/ ToMapLayer(GridInputs)

SpecGrid == Init /\ [][NextGrid]_vars

NextObjects ==
    \/ ToMapBegin(ObjectInputs)
    \/ ToTilesetBegin(ObjectInputs)
    \/ ToTilesetTile(ObjectInputs)
    \/ ToTilesetEnd(ObjectInputs)
    \/ ToMapLayer(ObjectInputs)

SpecObjects == Init /\ [][NextObjects]_vars

NextTerrain ==
    \/ ToMapBegin(TerrainInputs)
    \/ ToTilesetBegin(TerrainInputs)
    \/ ToTilesetTile(TerrainInputs)
    \/ ToTilesetEnd(TerrainInputs)

SpecTerrain == Init /\ [][NextTerrain]_vars

NextMapper ==
    \/ ToMapBegin(MapperInputs)
    \/ ToTilesetBegin(MapperInputs)
    \/ ToTilesetTile(MapperInputs)
    \/ ToTilesetEnd(MapperInputs)
    \/ ToMapLayer(MapperInputs)

SpecMapper == Init /\ [][NextMapper]_vars

NextShapes ==
    \/ ToMapBegin(ShapeInputs)
    \/ ToMapLayer(ShapeInputs)

SpecShapes == Init /\ [][NextShapes]_vars

----------------------------------------------------------------------------
(* Properties *)

\* the layer step has been taken in this call on a tile layer input
TileLayerTried == layerVariant.type = "tilelayer"

\* the layer built by the last layer step (when it did not fail)
LastLayer == map.layers[Len(map.layers)]

\* the input of the last layer step is a valid tile layer: dimensions not
\* negative, exactly width*height entries, all of them numbers
ValidTileLayer ==
    /\ TileLayerTried
    /\ layerVariant.width >= 0
    /\ layerVariant.height >= 0
    /\ Len(layerVariant.data) = layerVariant.width * layerVariant.height
    /\ \A i \in 1..Len(layerVariant.data) : layerVariant.data[i] # NonNumeric

\* C2: a valid tile layer gives a grid of width*height cells, and the cell
\* at (x, y) is the resolution of data entry y*width + x
C2_RowMajorGrid ==
    ValidTileLayer =>
        /\ result # "null"
        /\ Len(map.layers) >= 1
        /\ LastLayer.type = "tilelayer"
        /\ Len(LastLayer.grid) = layerVariant.width * layerVariant.height
        /\ \A x \in 0..(layerVariant.width - 1), y \in 0..(layerVariant.height - 1) :
              CellAt(LastLayer, x, y)
                = GidToCell(layerVariant.data[y * layerVariant.width + x + 1]).cell

\* a 2x2 layer was built whose four cells are two empty ones and two
\* different tiles
C2_Witness ==
    /\ ValidTileLayer
    /\ layerVariant.width = 2
    /\ layerVariant.height = 2
    /\ Len(map.layers) = 1
    /\ ~IsEmptyCell(CellAt(LastLayer, 1, 0))
    /\ ~IsEmptyCell(CellAt(LastLayer, 0, 1))
    /\ CellAt(LastLayer, 1, 0) # CellAt(LastLayer, 0, 1)

\* the cell built for data entry i
CellOfEntry(i) ==
    CellAt(LastLayer, (i - 1) % layerVariant.width, (i - 1) \div layerVariant.width)

\* a valid tile layer was built: its entries
BuiltEntries ==
    IF ValidTileLayer /\ Len(map.layers) >= 1 /\ result # "null"
    THEN 1..Len(layerVariant.data) ELSE {}

\* the tilesets of the document that the mapper holds, their first global
\* ids as given in the input, and their ranges
Registered == {e[2] : e \in mGidMapper}
FirstGidOf(k) == map.tilesets[k].firstGid
TileCountOf(k) == Len(map.tilesets[k].tiles)
InRange(gid, k) == FirstGidOf(k) <= gid /\ gid < FirstGidOf(k) + TileCountOf(k)

\* C3 as stated: gid 0 resolves to an empty cell, and a gid within the
\* range of a registered tileset A never resolves to a tile of another one
C3_NeverAnotherTileset ==
    \A i \in BuiltEntries :
        LET gid == layerVariant.data[i]
            cell == CellOfEntry(i)
        IN /\ gid = 0 => IsEmptyCell(cell)
           /\ \A a \in Registered :
                 InRange(gid, a) => (IsEmptyCell(cell) \/ cell.ts = a)

\* C3 amended: gid 0 resolves to an empty cell, and a gid within the range
\* of a registered tileset A never resolves to a tile of another tileset,
\* unless another registered tileset has its firstGid above A's and not
\* above the gid (the ranges overlap at the gid)
C3_NeverAnotherTilesetUnlessOverlap ==
    \A i \in BuiltEntries :
        LET gid == layerVariant.data[i]
            cell == CellOfEntry(i)
        IN /\ gid = 0 => IsEmptyCell(cell)
           /\ \A a \in Registered :
                 (/\ InRange(gid, a)
                  /\ ~\E b \in Registered :
                        FirstGidOf(a) < FirstGidOf(b) /\ FirstGidOf(b) <= gid)
                 => (IsEmptyCell(cell) \/ cell.ts = a)

\* a layer was built over two registered tilesets with a gap between their
\* ranges, with a tile of each of them and an empty cell for gid 0
C3_Witness ==
    /\ BuiltEntries # {}
    /\ Registered = {1, 2}
    /\ FirstGidOf(1) + TileCountOf(1) < FirstGidOf(2)
    /\ \E i, j, k \in BuiltEntries :
          /\ CellOfEntry(i).ts = 1 /\ InRange(layerVariant.data[i], 1)
          /\ CellOfEntry(j).ts = 2 /\ InRange(layerVariant.data[j], 2)
          /\ layerVariant.data[k] = 0

\* the registered tilesets whose firstGid does not exceed the gid
NotAbove(gid) == {k \in Registered : FirstGidOf(k) <= gid}

\* the scenario: one tileset (firstGid 1, 4 tiles), data [0,1,2,5] on 2x2
Scenario ==
    /\ Len(map.tilesets) = 1
    /\ FirstGidOf(1) = 1
    /\ TileCountOf(1) = 4
    /\ TileLayerTried
    /\ layerVariant.width = 2
    /\ layerVariant.height = 2
    /\ layerVariant.data = <<0, 1, 2, 5>>

\* C4: a non-zero gid resolves to the registered tileset with the greatest
\* firstGid not above it, at local index gid - firstGid; the cell is empty
\* when there is no such tileset or the index is no tile of it, and the
\* conversion does not fail; the scenario gives empty, tile 0, tile 1, empty
C4_GreatestFirstGid ==
    /\ ValidTileLayer => (result # "null" /\ Len(map.layers) >= 1)
    /\ \A i \in BuiltEntries :
          LET gid == layerVariant.data[i]
              cell == CellOfEntry(i)
          IN gid # 0 =>
               IF NotAbove(gid) = {} THEN IsEmptyCell(cell)
               ELSE \E k \in NotAbove(gid) :
                       /\ \A j \in NotAbove(gid) : FirstGidOf(j) <= FirstGidOf(k)
                       /\ IF gid - FirstGidOf(k) < TileCountOf(k)
                          THEN cell = [ts |-> k, id |-> gid - FirstGidOf(k)]
                          ELSE IsEmptyCell(cell)
    /\ Scenario =>
          /\ result = "map"
          /\ LastLayer.grid = <<EmptyCell, [ts |-> 1, id |-> 0],
                                [ts |-> 1, id |-> 1], EmptyCell>>

\* the scenario was converted
C4_Witness == Scenario /\ pc = "returned" /\ result = "map"

\* C8: a tile layer whose data length differs from width*height fails with
\* 'Corrupt layer data', no layer is added and toMap returns null
C8_CorruptLayerData ==
    (TileLayerTried
     /\ Len(layerVariant.data) # layerVariant.width * layerVariant.height)
    => /\ pc = "returned"
       /\ result = "null"
       /\ mError = "Corrupt layer data"
       /\ mErrorAge = "fresh"
       /\ map.layers = <<>>

\* width 3, height 3 and 8 entries, after two tilesets were built
C8_Witness ==
    /\ TileLayerTried
    /\ layerVariant.width = 3
    /\ layerVariant.height = 3
    /\ Len(layerVariant.data) = 8
    /\ Len(map.tilesets) = 2
    /\ result = "null"

----------------------------------------------------------------------------
(* Properties of the walk as a whole *)

\* C1 as stated: when toMap returns null, mError was written by the step
\* that failed, in this call
C1_ErrorSetByFailingStep ==
    (pc = "returned" /\ result = "null") => mErrorAge = "fresh"

\* every tile of the tileset under construction and of the document
AllTiles ==
    {cur.tiles[i] : i \in 1..Len(cur.tiles)}
    \cup UNION {{map.tilesets[k].tiles[i] : i \in 1..Len(map.tilesets[k].tiles)} :
                  k \in 1..Len(map.tilesets)}

\* C7 as stated: a draw-order string that is not empty and maps to no known
\* draw order makes toMap return null with 'Invalid draw order', for an
\* object layer and for the object group of a tile override (whose failed
\* build leaves the tile a null group); an empty one is never an error
C7_InvalidDrawOrderFatal ==
    /\ (pc = "returned" /\ layerVariant.type = "objectgroup") =>
          IF layerVariant.draworder # ""
             /\ DrawOrderFromString(layerVariant.draworder) = "UnknownOrder"
          THEN result = "null" /\ mError = "Invalid draw order"
          ELSE result = "map"
    /\ (pc = "returned" /\ \E t \in AllTiles : t.objectGroup.null) =>
          result = "null"

----------------------------------------------------------------------------
(* Properties of the override loop *)

\* C5: an iteration of the override loop grows the tile sequence only to a
\* count <= N, and a key >= the tile count and >= N fails with 'tile index
\* too high' and adds no tile
C5_GrowthCapped ==
    [][pc = "tiles" =>
         /\ Len(cur'.tiles) > Len(cur.tiles) => Len(cur'.tiles) <= cur.N
         /\ (tileIndex' >= Len(cur.tiles) /\ tileIndex' >= cur.N) =>
               /\ result' = "null"
               /\ mError' = "Tileset tile index too high"
               /\ Len(cur'.tiles) = Len(cur.tiles)]_vars

\* after a growth to N tiles, a key above N was refused
C5_Witness ==
    /\ pc = "returned"
    /\ result = "null"
    /\ mError = "Tileset tile index too high"
    /\ cur.N = MaxOverrides
    /\ Len(cur.tiles) = cur.N
    /\ cur.tiles[cur.N].size = <<0, 0>>
    /\ tileIndex = MaxTileIndex

\* C6 as stated: a negative override key makes the conversion fail
C6_NegativeIndexFatal ==
    (pc = "returned" /\ tileIndex < 0) => result = "null"

----------------------------------------------------------------------------
(* Properties of the objects *)

\* the last layer step built an object layer with one object
ObjectBuilt ==
    /\ layerVariant.type = "objectgroup"
    /\ Len(layerVariant.objects) = 1
    /\ result = "map"
ObjectInput == layerVariant.objects[1]
Object == LastLayer.group.objects[1]

\* C9: with a gid that resolves to a tile, a dimension is taken from the
\* tile exactly when its input is 0; without one, the input size is kept
C9_StampBackfill ==
    ObjectBuilt =>
        LET stamp == GidToCell(ObjectInput.gid).cell
        IN IF ObjectInput.gid # 0 /\ ~IsEmptyCell(stamp)
           THEN /\ Object.cell = stamp
                /\ (ObjectInput.width = 0 /\ ObjectInput.height = 0) =>
                      Object.size = TileOfCell(stamp).size
                /\ (ObjectInput.width # 0 /\ ObjectInput.height # 0) =>
                      Object.size = <<ObjectInput.width, ObjectInput.height>>
                /\ Object.size[1] = IF ObjectInput.width = 0
                                    THEN TileOfCell(stamp).size[1]
                                    ELSE ObjectInput.width
                /\ Object.size[2] = IF ObjectInput.height = 0
                                    THEN TileOfCell(stamp).size[2]
                                    ELSE ObjectInput.height
           ELSE /\ IsEmptyCell(Object.cell)
                /\ Object.size = <<ObjectInput.width, ObjectInput.height>>

\* an object of width 0 and height 3 on a 1x2 tile became 1x3
C9_Witness ==
    /\ ObjectBuilt
    /\ ObjectInput.width = 0
    /\ ObjectInput.height = 3
    /\ ~IsEmptyCell(Object.cell)
    /\ TileOfCell(Object.cell).size = <<1, 2>>
    /\ Object.size = <<1, 3>>

\* the target field of the object's category
TargetInput ==
    IF ObjectInput.objectType = "Teleporter" THEN ObjectInput.teleportertarget
    ELSE ObjectInput.cameratarget

\* C10: a teleporter or camera trigger stores "" for the target "0", and
\* every other string, and the empty string of an absent field, verbatim
C10_TargetSentinel ==
    (ObjectBuilt /\ ObjectInput.objectType \in {"Teleporter", "CameraTrigger"}) =>
        /\ TargetInput = StringVariant("0") => Object.rtb.target = ""
        /\ (TargetInput.valid /\ TargetInput.str # "0") =>
              Object.rtb.target = TargetInput.str
        /\ ~TargetInput.valid => Object.rtb.target = ""

\* a camera trigger with cameratarget "0" and another teleportertarget
C10_Witness ==
    /\ ObjectBuilt
    /\ ObjectInput.objectType = "CameraTrigger"
    /\ ObjectInput.cameratarget = StringVariant("0")
    /\ ObjectInput.teleportertarget = StringVariant("a")
    /\ Object.rtb.target = ""

\* entry i of a terrain list is a number within [0, terrainCount)
ValidTerrainEntry(terrains, i, terrainCount) ==
    /\ Len(terrains) = 4
    /\ terrains[i].isInt
    /\ terrains[i].int >= 0
    /\ terrains[i].int < terrainCount

\* C11 as stated: after an override entry, corner i of its tile is entry i of
\* the terrain list when the list has 4 entries and entry i is a number
\* within [0, terrainCount), and is unset otherwise; the tileset never fails
C11_TerrainCorners ==
    /\ (pc \in {"tiles", "tilesetEnd"} /\ cur.left < cur.N /\ tileIndex >= 0) =>
          \A i \in 1..4 :
             cur.tiles[tileIndex + 1].terrain[i] =
                IF ValidTerrainEntry(lastTileVar.terrain, i, cur.terrainCount)
                THEN lastTileVar.terrain[i].int
                ELSE UnsetTerrain
    /\ pc = "returned" => (result = "map" /\ mError = "")

\* C11 amended: an override entry sets corner i of its tile to entry i of
\* the terrain list when the list has 4 entries and entry i is a number
\* within [0, terrainCount), and leaves every other corner as it was before
\* the entry (unset for a tile no earlier entry has set); the entry neither
\* fails the tileset nor writes the error message
C11_TerrainCornersKept ==
    [][(pc = "tiles" /\ tileIndex' >= 0) =>
         LET terrains == lastTileVar'.terrain
             before == IF tileIndex' < Len(cur.tiles)
                       THEN cur.tiles[tileIndex' + 1].terrain
                       ELSE UnsetCorners
             after == cur'.tiles[tileIndex' + 1].terrain
         IN /\ \A i \in 1..4 :
                  after[i] = IF ValidTerrainEntry(terrains, i, cur.terrainCount)
                             THEN terrains[i].int
                             ELSE before[i]
            /\ result' # "null"
            /\ mError' = mError]_vars

\* the second entry for tile 0 had the list 0, 1, no number, -1 with one
\* terrain: corner 0 was set to 0, the corners 1 and 2 kept the terrain 0
\* of the first entry, and corner 3 is unset
C11_Witness ==
    /\ pc = "tilesetEnd"
    /\ cur.N = 2
    /\ cur.left = 0
    /\ cur.terrainCount = 1
    /\ lastTileVar.terrain = <<IntVariant(0), IntVariant(1), NoIntVariant,
                               IntVariant(0 - 1)>>
    /\ cur.tiles[1].terrain = <<0, 0, 0, UnsetTerrain>>

\* C12 as stated: a polygon list gives Polygon, else a polyline list gives
\* Polyline, else an ellipse marker gives Ellipse, else Rectangle; with both
\* lists the shape is Polyline and the points are the polyline's
C12_ShapePrecedence ==
    ObjectBuilt =>
        /\ Object.shape =
              IF ObjectInput.polygon.valid /\ ObjectInput.polyline.valid
              THEN "Polyline"
              ELSE IF ObjectInput.polygon.valid THEN "Polygon"
              ELSE IF ObjectInput.polyline.valid THEN "Polyline"
              ELSE IF ObjectInput.ellipse # "absent" THEN "Ellipse"
              ELSE "Rectangle"
        /\ (ObjectInput.polygon.valid /\ ObjectInput.polyline.valid) =>
              Object.polygon = ToPolygon(ObjectInput.polyline)

\* C12 amended: an ellipse marker (whatever its value) gives Ellipse, else
\* a polyline list gives Polyline, else a polygon list gives Polygon, else
\* Rectangle; the points are the polyline's when a polyline list is
\* present, else the polygon's, also under an ellipse marker
C12_ShapeLastWins ==
    ObjectBuilt =>
        /\ Object.shape =
              IF ObjectInput.ellipse # "absent" THEN "Ellipse"
              ELSE IF ObjectInput.polyline.valid THEN "Polyline"
              ELSE IF ObjectInput.polygon.valid THEN "Polygon"
              ELSE "Rectangle"
        /\ Object.polygon =
              IF ObjectInput.polyline.valid THEN ToPolygon(ObjectInput.polyline)
              ELSE IF ObjectInput.polygon.valid THEN ToPolygon(ObjectInput.polygon)
              ELSE <<>>

\* an object with a polygon of one point, a polyline of two points and the
\* marker "ellipse": false is an Ellipse that holds the polyline's points
C12_Witness ==
    /\ ObjectBuilt
    /\ Len(ObjectInput.polygon.list) = 1
    /\ Len(ObjectInput.polyline.list) = 2
    /\ ObjectInput.polyline.list[1].x = NoIntVariant
    /\ ObjectInput.ellipse = "false"
    /\ Object.shape = "Ellipse"
    /\ Object.polygon = <<<<0, 3>>, <<1, 2>>>>

\* every registration is of a tileset of the document of this call, under
\* its firstGid
MapperHoldsBuilt ==
    \A e \in mGidMapper :
       /\ e[2] \in 1..Len(map.tilesets)
       /\ map.tilesets[e[2]].firstGid = e[1]

\* every tileset of the document has been registered: its firstGid is a key
\* of the mapper, and with distinct firstGids every tileset is in the mapper
AllRegistered ==
    /\ {e[1] : e \in mGidMapper} =
          {map.tilesets[k].firstGid : k \in 1..Len(map.tilesets)}
    /\ (\A j, k \in 1..Len(map.tilesets) :
           j # k => map.tilesets[j].firstGid # map.tilesets[k].firstGid)
          => {e[2] : e \in mGidMapper} = 1..Len(map.tilesets)

\* the tile objects of the nested object groups of these tiles refer to
\* no tileset after the first n of the document
NestedEarlierOnly(tiles, n) ==
    \A t \in 1..Len(tiles) :
       \A j \in 1..Len(tiles[t].objectGroup.objects) :
          tiles[t].objectGroup.objects[j].cell.ts <= n

====
